---- MODULE Spec2Model ----
(***************************************************************************)
(* The qualify_path assist of crates/assists/src/handlers/qualify_path.rs. *)
(* Source text is a sequence of tokens, a text range is a half-open        *)
(* interval of token offsets, and an optional value is a sequence of       *)
(* length zero or one.                                                     *)
(***************************************************************************)
EXTENDS Integers, Sequences, FiniteSets, TLC

VARIABLES ctx, other, acc, ret, pc, runs, prev, chosen, file

\* the process-wide logger of crates/rust-analyzer/src/bin/logger.rs, the
\* threads that call it, and its output
VARIABLES logger, faulty, lock, buf, disk, stderr, thr, issued

avars == <<ctx, other, acc, ret, pc, runs, prev, chosen, file>>
lvars == <<logger, faulty, lock, buf, disk, stderr, thr, issued>>
vars == <<ctx, other, acc, ret, pc, runs, prev, chosen, file,
          logger, faulty, lock, buf, disk, stderr, thr, issued>>

\* ---- bounds of the model ----
MaxArgs == 2
MaxQualifierLen == 2
MaxPathLen == 2
MaxImports == 2
MaxOther == 1
NThreads == 2
MaxCalls == 2
BufCap == 8

None == <<>>
Some(x) == <<x>>

\* ---- names the inputs are drawn from ----
QualNames == <<"A", "B", "C", "D">>
ArgNames == <<"42", "7", "0", "1">>
ModNames == {"dep", "m"}
SortedNames == <<"A", "dep", "item", "m", "x">>
SelfParams == {"self", "&self", "&mut self"}

RECURSIVE JoinWith(_, _)
JoinWith(s, sep) ==
    IF Len(s) = 0 THEN <<>>
    ELSE IF Len(s) = 1 THEN <<s[1]>>
    ELSE <<s[1], sep>> \o JoinWith(Tail(s), sep)

\* ---- text ranges and text edits ----
TextRange(s, e) == [start |-> s, end |-> e]

TextOf(doc, r) == SubSeq(doc, r.start + 1, r.end)

Replace(doc, indel) ==
    SubSeq(doc, 1, indel.delete.start) \o indel.insert
        \o SubSeq(doc, indel.delete.end + 1, Len(doc))

\* the indels of one source change, applied from the last one to the first
RECURSIVE TextEditApply(_, _)
TextEditApply(doc, indels) ==
    IF indels = <<>> THEN doc
    ELSE TextEditApply(Replace(doc, indels[Len(indels)]),
                       SubSeq(indels, 1, Len(indels) - 1))

\* ---- syntax nodes ----
PATH == "PATH"
METHOD_CALL_EXPR == "METHOD_CALL_EXPR"

Node(k, r, q, s, rc, n, a) ==
    [kind |-> k, range |-> r, qualifier |-> q, segment |-> s,
     receiver |-> rc, name_ref |-> n, arg_list |-> a]

OptText(o) == IF o = None THEN <<>> ELSE o[1]

PathText(q, s) ==
    IF q = None THEN OptText(s) ELSE q[1] \o <<"::">> \o OptText(s)

ArgListText(args) == <<"(">> \o JoinWith(args, ", ") \o <<")">>

MethodCallText(rc, n, args) ==
    OptText(rc) \o <<".">> \o OptText(n) \o ArgListText(args)

PathCast(node) == IF node.kind = PATH THEN Some(node) ELSE None
MethodCallExprCast(node) ==
    IF node.kind = METHOD_CALL_EXPR THEN Some(node) ELSE None

\* ---- the trees of a request ----
Pres == {<<>>, <<"{">>}
PathPosts == {<<>>, <<";">>, <<"::", "Z">>}
CallPosts == {<<>>, <<";">>}

Qualifiers ==
    {None} \cup
    {Some(JoinWith(SubSeq(QualNames, 1, n), "::")) : n \in 1..MaxQualifierLen}
Segments == {None, Some(<<"item">>)}
Receivers == {None, Some(<<"x">>)}
NameRefs == {None, Some(<<"meth">>)}
ArgLists == {SubSeq(ArgNames, 1, n) : n \in 0..MaxArgs}

PathTree(pre, q, s, post) ==
    LET text == PathText(q, s)
        r == TextRange(Len(pre), Len(pre) + Len(text))
    IN [doc |-> pre \o text \o post,
        path |-> Some(Node(PATH, r, q, s, None, None, <<>>)),
        mcall |-> None]

\* caret on the method name (no path encloses it) or on the receiver path
MethodCallTree(pre, rc, n, args, post, onReceiver) ==
    LET text == MethodCallText(rc, n, args)
        r == TextRange(Len(pre), Len(pre) + Len(text))
        rr == TextRange(Len(pre), Len(pre) + Len(OptText(rc)))
    IN [doc |-> pre \o text \o post,
        path |-> IF onReceiver
                 THEN Some(Node(PATH, rr, None, rc, None, None, <<>>))
                 ELSE None,
        mcall |-> Some(Node(METHOD_CALL_EXPR, r, None, None, rc, n, args))]

LiteralTree(pre, post) ==
    [doc |-> pre \o <<"42">> \o post, path |-> None, mcall |-> None]

PathTrees ==
    {PathTree(pre, q, s, post) :
        pre \in Pres, post \in PathPosts, q \in Qualifiers, s \in Segments}

Trees ==
    {t \in PathTrees : t.path[1].range.start # t.path[1].range.end}
    \cup
    {MethodCallTree(pre, rc, n, args, post, FALSE) :
        pre \in Pres, rc \in Receivers, n \in NameRefs,
        args \in ArgLists, post \in CallPosts}
    \cup
    {MethodCallTree(pre, Some(<<"x">>), n, args, post, TRUE) :
        pre \in Pres, n \in NameRefs, args \in ArgLists, post \in CallPosts}
    \cup
    {LiteralTree(pre, post) : pre \in Pres, post \in CallPosts}

\* ---- module paths ----
\* a crate or module at the root, then nested modules
ModPaths ==
    {[i \in 1..n |-> IF i = 1 THEN root ELSE "m"] :
        root \in ModNames, n \in 1..MaxPathLen}

ImportSets == {S \in SUBSET ModPaths : Cardinality(S) <= MaxImports}

NameOrd(s) == CHOOSE i \in 1..Len(SortedNames) : SortedNames[i] = s

RECURSIVE ModPathLess(_, _)
ModPathLess(a, b) ==
    IF Len(a) = 0 THEN Len(b) > 0
    ELSE IF Len(b) = 0 THEN FALSE
    ELSE IF a[1] # b[1] THEN NameOrd(a[1]) < NameOrd(b[1])
    ELSE ModPathLess(Tail(a), Tail(b))

\* the order in which `for import in proposed_imports` visits a BTreeSet
RECURSIVE BTreeSetIter(_)
BTreeSetIter(S) ==
    IF S = {} THEN <<>>
    ELSE LET least == CHOOSE x \in S : \A y \in S \ {x} : ModPathLess(x, y)
         IN <<least>> \o BTreeSetIter(S \ {least})

ModPathDisplay(import) == JoinWith(import, "::")
mod_path_to_ast(import) == JoinWith(import, "::")

\* ---- the import candidate of a located node ----
QualifierStart == "QualifierStart"
UnqualifiedName == "UnqualifiedName"
TraitAssocItem == "TraitAssocItem"
TraitMethod == "TraitMethod"

Candidate(shape, name) == [shape |-> shape, name |-> name]

FirstOr(o, d) == IF o = None THEN d ELSE o[1][1]

PathCandidates(node) ==
    {Candidate(QualifierStart, FirstOr(node.qualifier, "")) :
        x \in {y \in {1} : node.qualifier # None}}
    \cup
    {Candidate(UnqualifiedName, FirstOr(node.segment, "")) :
        x \in {y \in {1} : node.qualifier = None /\ node.segment # None}}
    \cup
    {Candidate(TraitAssocItem, FirstOr(node.segment, ""))}

MethodCandidates(node) ==
    {Candidate(TraitMethod, FirstOr(node.name_ref, ""))}

OptionOf(S) == {None} \cup {Some(x) : x \in S}

\* what the search proposes for a candidate: paths of items called by the
\* name looked for, or paths of traits that declare the item or method
ProposedSets(candidate) ==
    IF candidate.shape \in {QualifierStart, UnqualifiedName}
    THEN {{import \o <<candidate.name>> : import \in S} : S \in ImportSets}
    ELSE ImportSets

\* the backquote of the labels, which a TLA+ string cannot hold
Backtick == "'"

\* ---- the accumulator of assists ----
Indel(range, text) == [delete |-> range, insert |-> text]

Assist(group, id, label, target, source_change) ==
    [group |-> group, id |-> id, label |-> label, target |-> target,
     source_change |-> source_change]

add_group(assists, group_label, id, label, target, source_change) ==
    Append(assists, Assist(group_label, id, label, target, source_change))

OtherAssist ==
    Assist(<<>>, "other_assist", <<"Other">>, TextRange(0, 0), <<>>)

GroupLabel(name) == <<"Qualify ", name>>

\* `for import in proposed_imports { acc.add_group(..) }`: one add_group per
\* element of items, in their order
RECURSIVE AddEach(_, _)
AddEach(assists, items) ==
    IF items = <<>> THEN assists
    ELSE AddEach(add_group(assists, Head(items).group, Head(items).id,
                           Head(items).label, Head(items).target,
                           Head(items).source_change),
                 Tail(items))

Quoted(prefix, import) ==
    <<prefix, Backtick>> \o ModPathDisplay(import) \o <<Backtick>>

\* ---- the four rewrites ----
\* builder.replace given the range of the segment, not of the node
qualify_path_qualifier_start_segment_range(assists, proposed_imports, range, segment, qualifier_start) ==
    LET group_label == GroupLabel(qualifier_start)
        imports == BTreeSetIter(proposed_imports)
        segment_range == TextRange(range.end - Len(segment), range.end)
    IN AddEach(assists,
         [i \in 1..Len(imports) |->
            Assist(group_label, "qualify_path",
                   Quoted("Qualify with ", imports[i]), range,
                   <<Indel(segment_range,
                           mod_path_to_ast(imports[i]) \o <<"::">> \o segment)>>)])

qualify_path_qualifier_start(assists, proposed_imports, range, segment, qualifier_start) ==
    LET group_label == GroupLabel(qualifier_start)
        imports == BTreeSetIter(proposed_imports)
    IN AddEach(assists,
         [i \in 1..Len(imports) |->
            Assist(group_label, "qualify_path",
                   Quoted("Qualify with ", imports[i]), range,
                   <<Indel(range, mod_path_to_ast(imports[i]) \o <<"::">> \o segment)>>)])

\* the original name emitted again after the path
qualify_path_unqualified_name_appends_name(assists, proposed_imports, range, name) ==
    LET group_label == GroupLabel(name)
        imports == BTreeSetIter(proposed_imports)
    IN AddEach(assists,
         [i \in 1..Len(imports) |->
            Assist(group_label, "qualify_path",
                   Quoted("Qualify as ", imports[i]), range,
                   <<Indel(range, mod_path_to_ast(imports[i]) \o <<"::", name>>)>>)])

\* every closure built from the first import of the set
qualify_path_unqualified_name_stale_import(assists, proposed_imports, range, name) ==
    LET group_label == GroupLabel(name)
        imports == BTreeSetIter(proposed_imports)
    IN AddEach(assists,
         [i \in 1..Len(imports) |->
            Assist(group_label, "qualify_path",
                   Quoted("Qualify as ", imports[i]), range,
                   <<Indel(range, mod_path_to_ast(imports[1]))>>)])

qualify_path_unqualified_name(assists, proposed_imports, range, name) ==
    LET group_label == GroupLabel(name)
        imports == BTreeSetIter(proposed_imports)
    IN AddEach(assists,
         [i \in 1..Len(imports) |->
            Assist(group_label, "qualify_path",
                   Quoted("Qualify as ", imports[i]), range,
                   <<Indel(range, mod_path_to_ast(imports[i]))>>)])

\* the cast left out: a plain `P::item`
qualify_path_trait_assoc_item_no_cast(assists, proposed_imports, range, qualifier, segment, trait_assoc_item_name) ==
    LET group_label == GroupLabel(trait_assoc_item_name)
        imports == BTreeSetIter(proposed_imports)
    IN AddEach(assists,
         [i \in 1..Len(imports) |->
            Assist(group_label, "qualify_path",
                   Quoted("Qualify with cast as ", imports[i]), range,
                   <<Indel(range, mod_path_to_ast(imports[i]) \o <<"::">> \o segment)>>)])

qualify_path_trait_assoc_item(assists, proposed_imports, range, qualifier, segment, trait_assoc_item_name) ==
    LET group_label == GroupLabel(trait_assoc_item_name)
        imports == BTreeSetIter(proposed_imports)
    IN AddEach(assists,
         [i \in 1..Len(imports) |->
            Assist(group_label, "qualify_path",
                   Quoted("Qualify with cast as ", imports[i]), range,
                   <<Indel(range, <<"<">> \o qualifier \o <<" as ">>
                                    \o mod_path_to_ast(imports[i])
                                    \o <<">", "::">> \o segment)>>)])

\* the set walked from its greatest element down
qualify_path_trait_method_descending(assists, proposed_imports, range, receiver, name_ref, trait_method_name) ==
    LET group_label == GroupLabel(trait_method_name)
        ascending == BTreeSetIter(proposed_imports)
        imports == [i \in 1..Len(ascending) |-> ascending[Len(ascending) + 1 - i]]
    IN AddEach(assists,
         [i \in 1..Len(imports) |->
            Assist(group_label, "qualify_path",
                   Quoted("Qualify ", imports[i]), range,
                   <<Indel(range, mod_path_to_ast(imports[i]) \o <<"::">>
                                    \o name_ref \o <<"(", "&">> \o receiver
                                    \o <<")">>)>>)])

qualify_path_trait_method(assists, proposed_imports, range, receiver, name_ref, trait_method_name) ==
    LET group_label == GroupLabel(trait_method_name)
        imports == BTreeSetIter(proposed_imports)
    IN AddEach(assists,
         [i \in 1..Len(imports) |->
            Assist(group_label, "qualify_path",
                   Quoted("Qualify ", imports[i]), range,
                   <<Indel(range, mod_path_to_ast(imports[i]) \o <<"::">>
                                    \o name_ref \o <<"(", "&">> \o receiver
                                    \o <<")">>)>>)])

\* ---- the collaborators of qualify_path ----
ImportAssets(candidate, node) ==
    [import_candidate |-> candidate, syntax_under_caret |-> node]

find_path_at_offset(c) == c.tree.path
find_method_call_at_offset(c) == c.tree.mcall

for_regular_path(path_under_caret, c) ==
    IF c.regular = None THEN None
    ELSE Some(ImportAssets(c.regular[1], path_under_caret))

for_method_call(method_under_caret, c) ==
    IF c.method = None THEN None
    ELSE Some(ImportAssets(c.method[1], method_under_caret))

search_for_relative_paths(import_assets, c) == c.proposed

original_range(node) == node.range

\* ---- qualify_path ----
Outcome(r, assists) == [ret |-> r, acc |-> assists]

\* the method-call branch also tried when the path is not classified
LocateImportAssets_falls_through(c) ==
    IF find_path_at_offset(c) # None
          /\ for_regular_path(find_path_at_offset(c)[1], c) # None
    THEN for_regular_path(find_path_at_offset(c)[1], c)
    ELSE IF find_method_call_at_offset(c) # None
    THEN for_method_call(find_method_call_at_offset(c)[1], c)
    ELSE None

LocateImportAssets(c) ==
    IF find_path_at_offset(c) # None
    THEN for_regular_path(find_path_at_offset(c)[1], c)
    ELSE IF find_method_call_at_offset(c) # None
    THEN for_method_call(find_method_call_at_offset(c)[1], c)
    ELSE None

\* a missing child read as empty text instead of ending the call
QualifyCandidate_missing_as_empty(assists, import_assets, proposed_imports) ==
    LET node == import_assets.syntax_under_caret
        candidate == import_assets.import_candidate
        range == original_range(node)
    IN CASE candidate.shape = QualifierStart ->
              Outcome("Some",
                  qualify_path_qualifier_start(assists, proposed_imports, range,
                      OptText(node.segment), candidate.name))
         [] candidate.shape = UnqualifiedName ->
              Outcome("Some",
                  qualify_path_unqualified_name(assists, proposed_imports, range,
                      candidate.name))
         [] candidate.shape = TraitAssocItem ->
              Outcome("Some",
                  qualify_path_trait_assoc_item(assists, proposed_imports, range,
                      OptText(node.qualifier), OptText(node.segment), candidate.name))
         [] candidate.shape = TraitMethod ->
              Outcome("Some",
                  qualify_path_trait_method(assists, proposed_imports, range,
                      OptText(node.receiver), OptText(node.name_ref), candidate.name))

QualifyCandidate(assists, import_assets, proposed_imports) ==
    LET node == import_assets.syntax_under_caret
        candidate == import_assets.import_candidate
        range == original_range(node)
    IN CASE candidate.shape = QualifierStart ->
              IF PathCast(node) = None \/ PathCast(node)[1].segment = None
              THEN Outcome("None", assists)
              ELSE Outcome("Some",
                     qualify_path_qualifier_start(assists, proposed_imports, range,
                         PathCast(node)[1].segment[1], candidate.name))
         [] candidate.shape = UnqualifiedName ->
              Outcome("Some",
                  qualify_path_unqualified_name(assists, proposed_imports, range,
                      candidate.name))
         [] candidate.shape = TraitAssocItem ->
              IF \/ PathCast(node) = None
                 \/ PathCast(node)[1].qualifier = None
                 \/ PathCast(node)[1].segment = None
              THEN Outcome("None", assists)
              ELSE Outcome("Some",
                     qualify_path_trait_assoc_item(assists, proposed_imports, range,
                         PathCast(node)[1].qualifier[1], PathCast(node)[1].segment[1],
                         candidate.name))
         [] candidate.shape = TraitMethod ->
              IF \/ MethodCallExprCast(node) = None
                 \/ MethodCallExprCast(node)[1].receiver = None
                 \/ MethodCallExprCast(node)[1].name_ref = None
              THEN Outcome("None", assists)
              ELSE Outcome("Some",
                     qualify_path_trait_method(assists, proposed_imports, range,
                         MethodCallExprCast(node)[1].receiver[1],
                         MethodCallExprCast(node)[1].name_ref[1], candidate.name))

\* the is_empty test on the proposed imports left out
qualify_path_no_empty_check(assists, c) ==
    LET import_assets == LocateImportAssets(c)
    IN IF import_assets = None THEN Outcome("None", assists)
       ELSE QualifyCandidate(assists, import_assets[1],
                             search_for_relative_paths(import_assets[1], c))

qualify_path(assists, c) ==
    LET import_assets == LocateImportAssets(c)
    IN IF import_assets = None THEN Outcome("None", assists)
       ELSE IF search_for_relative_paths(import_assets[1], c) = {}
       THEN Outcome("None", assists)
       ELSE QualifyCandidate(assists, import_assets[1],
                             search_for_relative_paths(import_assets[1], c))

\* ---- the logger ----
Threads == 1..NThreads
NoThread == 0

Levels == <<"ERROR", "INFO">>
LevelOrd(level) == CHOOSE i \in 1..Len(Levels) : Levels[i] = level
\* a record above the lowest filter without a module path, and one that
\* every filter passes with a module path
RecordKinds == {<<"INFO", None>>, <<"ERROR", Some("app")>>}

Record(level, module_path, args) ==
    [level |-> level, module_path |-> module_path, args |-> args]

NoRecord == Record("ERROR", None, "")

Records(n) == {Record(kind[1], kind[2], ToString(n)) : kind \in RecordKinds}

\* Logger::new: the destination, the mode and the filter
Logger(log_file, no_buffering, filter) ==
    [file |-> log_file, no_buffering |-> no_buffering, filter |-> filter]

Loggers ==
    {Logger(f, nb, Levels[i]) : f \in BOOLEAN, nb \in BOOLEAN, i \in 1..Len(Levels)}

\* self.filter.matches(record)
matches(filter, record) == LevelOrd(record.level) <= LevelOrd(filter)

\* record.module_path().unwrap_or_default()
unwrap_or_default(module_path) ==
    IF module_path = None THEN "" ELSE module_path[1]

\* the pieces write_fmt hands to write_all for "[{} {}] {}" and the newline
LinePieces(record) ==
    <<"[", record.level, " ", unwrap_or_default(record.module_path), "] ",
      record.args, "\n">>

LineLen == Len(LinePieces(NoRecord))

\* BufWriter::flush_buf, which writes n pieces of the buffer to the file and
\* fails when n is less than the whole buffer
flush_buf(b, d, n) ==
    [buf |-> SubSeq(b, n + 1, Len(b)), disk |-> d \o SubSeq(b, 1, n),
     ok |-> n = Len(b)]

FlushOutcomes(b) ==
    {Len(b)} \cup (IF faulty THEN 0..(Len(b) - 1) ELSE {})

\* BufWriter::write_all of one piece, the buffer flushed first when full
write_all(b, d, piece, n) ==
    IF Len(b) + 1 > BufCap
    THEN IF flush_buf(b, d, n).ok
         THEN [buf |-> <<piece>>, disk |-> flush_buf(b, d, n).disk, ok |-> TRUE]
         ELSE flush_buf(b, d, n)
    ELSE [buf |-> Append(b, piece), disk |-> d, ok |-> TRUE]

Thread(p, op, record, k) == [pc |-> p, op |-> op, record |-> record, k |-> k]

IdleThread == Thread("idle", "none", NoRecord, 0)

CanCall(t) == thr[t].pc \in {"idle", "returned"}

\* Logger::log up to its first use of the sink
Log(t) ==
    /\ CanCall(t)
    /\ issued < MaxCalls
    /\ issued' = issued + 1
    /\ \E record \in Records(issued + 1) :
          thr' = [thr EXCEPT ![t] =
                    Thread(IF ~matches(logger.filter, record) THEN "returned"
                           ELSE IF logger.file THEN "lock_write"
                           ELSE "eprintln",
                           "log", record, 0)]
    /\ UNCHANGED <<logger, faulty, lock, buf, disk, stderr>>
    /\ UNCHANGED avars

\* Logger::flush up to its use of the sink
FlushCall(t) ==
    /\ CanCall(t)
    /\ issued < MaxCalls
    /\ issued' = issued + 1
    /\ thr' = [thr EXCEPT ![t] =
                 Thread(IF logger.file THEN "lock_flush" ELSE "returned",
                        "flush", NoRecord, 0)]
    /\ UNCHANGED <<logger, faulty, lock, buf, disk, stderr>>
    /\ UNCHANGED avars

\* the sink written without waiting for the mutex
Acquire_without_mutex(t) ==
    /\ thr[t].pc \in {"lock_write", "lock_flush"}
    /\ lock' = t
    /\ thr' = [thr EXCEPT ![t].pc = IF @ = "lock_write" THEN "write" ELSE "flush",
                          ![t].k = 1]
    /\ UNCHANGED <<logger, faulty, buf, disk, stderr, issued>>
    /\ UNCHANGED avars

\* w.lock()
Acquire(t) ==
    /\ thr[t].pc \in {"lock_write", "lock_flush"}
    /\ lock = NoThread
    /\ lock' = t
    /\ thr' = [thr EXCEPT ![t].pc = IF @ = "lock_write" THEN "write" ELSE "flush",
                          ![t].k = 1]
    /\ UNCHANGED <<logger, faulty, buf, disk, stderr, issued>>
    /\ UNCHANGED avars

\* writeln!(guard, ..): one write_all; an error ends the write
WritePiece(t) ==
    /\ thr[t].pc = "write"
    /\ \E n \in FlushOutcomes(buf) :
          LET w == write_all(buf, disk, LinePieces(thr[t].record)[thr[t].k], n)
          IN /\ buf' = w.buf
             /\ disk' = w.disk
             /\ thr' = [thr EXCEPT
                          ![t].pc = IF w.ok /\ thr[t].k < LineLen
                                    THEN "write" ELSE "unlock_write",
                          ![t].k = IF w.ok THEN @ + 1 ELSE @]
    /\ UNCHANGED <<logger, faulty, lock, stderr, issued>>
    /\ UNCHANGED avars

\* log returning after the write whatever the mode
ReleaseWrite_no_flush(t) ==
    /\ thr[t].pc = "unlock_write"
    /\ lock' = NoThread
    /\ thr' = [thr EXCEPT ![t].pc = "returned"]
    /\ UNCHANGED <<logger, faulty, buf, disk, stderr, issued>>
    /\ UNCHANGED avars

\* the write guard kept alive across the flush
ReleaseWrite_keeps_guard(t) ==
    /\ thr[t].pc = "unlock_write"
    /\ lock' = IF logger.no_buffering THEN lock ELSE NoThread
    /\ thr' = [thr EXCEPT ![t].pc = IF logger.no_buffering THEN "lock_flush"
                                    ELSE "returned"]
    /\ UNCHANGED <<logger, faulty, buf, disk, stderr, issued>>
    /\ UNCHANGED avars

\* the guard of the writeln! statement dropped, then the test of no_buffering
ReleaseWrite(t) ==
    /\ thr[t].pc = "unlock_write"
    /\ lock' = NoThread
    /\ thr' = [thr EXCEPT ![t].pc = IF logger.no_buffering THEN "lock_flush"
                                    ELSE "returned"]
    /\ UNCHANGED <<logger, faulty, buf, disk, stderr, issued>>
    /\ UNCHANGED avars

\* guard.flush(): unwrapped in log, where an error panics and unwinding
\* drops the guard; ignored in Logger::flush
Flush(t) ==
    /\ thr[t].pc = "flush"
    /\ \E n \in FlushOutcomes(buf) :
          LET f == flush_buf(buf, disk, n)
          IN /\ buf' = f.buf
             /\ disk' = f.disk
             /\ IF ~f.ok /\ thr[t].op = "log"
                THEN /\ thr' = [thr EXCEPT ![t].pc = "panicked"]
                     /\ lock' = NoThread
                ELSE /\ thr' = [thr EXCEPT ![t].pc = "unlock_flush"]
                     /\ lock' = lock
    /\ UNCHANGED <<logger, faulty, stderr, issued>>
    /\ UNCHANGED avars

\* the guard of the flush statement dropped
ReleaseFlush(t) ==
    /\ thr[t].pc = "unlock_flush"
    /\ lock' = NoThread
    /\ thr' = [thr EXCEPT ![t].pc = "returned"]
    /\ UNCHANGED <<logger, faulty, buf, disk, stderr, issued>>
    /\ UNCHANGED avars

\* eprintln!, which panics when the write to stderr fails
Eprintln(t) ==
    /\ thr[t].pc = "eprintln"
    /\ \E ok \in (IF faulty THEN BOOLEAN ELSE {TRUE}) :
          IF ok
          THEN /\ stderr' = stderr \o LinePieces(thr[t].record)
               /\ thr' = [thr EXCEPT ![t].pc = "returned"]
          ELSE /\ stderr' = stderr
               /\ thr' = [thr EXCEPT ![t].pc = "panicked"]
    /\ UNCHANGED <<logger, faulty, lock, buf, disk, issued>>
    /\ UNCHANGED avars

LoggerInit(faults) ==
    /\ logger \in Loggers
    /\ faulty \in faults
    /\ lock = NoThread
    /\ buf = <<>>
    /\ disk = <<>>
    /\ stderr = <<>>
    /\ thr = [t \in Threads |-> IdleThread]
    /\ issued = 0

\* no logger in use
LoggerOff ==
    /\ logger = Logger(FALSE, FALSE, "ERROR")
    /\ faulty = FALSE
    /\ lock = NoThread
    /\ buf = <<>>
    /\ disk = <<>>
    /\ stderr = <<>>
    /\ thr = [t \in Threads |-> IdleThread]
    /\ issued = 0

\* ---- the state machine ----
Request(t, r, m, p, sp) ==
    [tree |-> t, regular |-> r, method |-> m, proposed |-> p, self_param |-> sp]

IdleRequest == Request(LiteralTree(<<>>, <<>>), None, None, {}, "&self")

OtherAssists(n) == [i \in 1..n |-> OtherAssist]

AssistInit ==
    /\ ctx = IdleRequest
    /\ other = 0
    /\ acc = <<>>
    /\ ret = "None"
    /\ pc = "idle"
    /\ runs = 0
    /\ prev = <<>>
    /\ chosen = 0
    /\ file = ctx.tree.doc

Init == AssistInit /\ LoggerOff

\* the host opens a request: a tree, a caret, the answers of the oracle for it,
\* and the assists other handlers have already put in the accumulator
NewRequest ==
    /\ pc = "idle"
    /\ \E t \in Trees :
         \E r \in (IF t.path = None THEN {None}
                   ELSE OptionOf(PathCandidates(t.path[1]))) :
         \E m \in (IF t.mcall = None THEN {None}
                   ELSE OptionOf(MethodCandidates(t.mcall[1]))) :
         \E p \in (IF t.path # None /\ r # None THEN ProposedSets(r[1])
                   ELSE IF m # None THEN ProposedSets(m[1])
                   ELSE {{}}) :
         \E sp \in (IF m = None THEN {"&self"} ELSE SelfParams) :
            ctx' = Request(t, r, m, p, sp) /\ file' = t.doc
    /\ \E n \in 0..MaxOther : other' = n /\ acc' = OtherAssists(n)
    /\ ret' = "None"
    /\ pc' = "ready"
    /\ runs' = 0
    /\ prev' = <<>>
    /\ chosen' = 0
    /\ UNCHANGED lvars

Added == SubSeq(acc, other + 1, Len(acc))

QualifyPath ==
    /\ pc = "ready"
    /\ ret' = qualify_path(acc, ctx).ret
    /\ acc' = qualify_path(acc, ctx).acc
    /\ pc' = "done"
    /\ runs' = runs + 1
    /\ UNCHANGED <<ctx, other, prev, chosen, file>>
    /\ UNCHANGED lvars

\* the same tree and offset are asked again, with a fresh accumulator
Repeat ==
    /\ pc = "done"
    /\ runs = 1
    /\ prev' = Added
    /\ acc' = OtherAssists(other)
    /\ ret' = "None"
    /\ pc' = "ready"
    /\ UNCHANGED <<ctx, other, runs, chosen, file>>
    /\ UNCHANGED lvars

\* the user picks one assist of the group; its source change is applied
ApplyAssist ==
    /\ pc = "done"
    /\ \E i \in other + 1 .. Len(acc) :
         /\ chosen' = i
         /\ file' = TextEditApply(ctx.tree.doc, acc[i].source_change)
    /\ pc' = "applied"
    /\ UNCHANGED <<ctx, other, acc, ret, runs, prev>>
    /\ UNCHANGED lvars

Finish ==
    /\ pc \in {"done", "applied"}
    /\ ctx' = IdleRequest
    /\ other' = 0
    /\ acc' = <<>>
    /\ ret' = "None"
    /\ pc' = "idle"
    /\ runs' = 0
    /\ prev' = <<>>
    /\ chosen' = 0
    /\ file' = IdleRequest.tree.doc
    /\ UNCHANGED lvars

Next == NewRequest \/ QualifyPath \/ Repeat \/ ApplyAssist \/ Finish

Spec == Init /\ [][Next]_vars

\* ---- the logger under concurrent callers ----
LogStep(t) ==
    \/ Log(t) \/ FlushCall(t) \/ Acquire(t) \/ WritePiece(t)
    \/ ReleaseWrite(t) \/ Flush(t) \/ ReleaseFlush(t) \/ Eprintln(t)

LogNext == \E t \in Threads : LogStep(t)

\* a sink whose writes succeed
LogInit == AssistInit /\ LoggerInit({FALSE})

LogSpec == LogInit /\ [][LogNext]_vars

\* a sink whose writes may fail
FaultInit == AssistInit /\ LoggerInit({TRUE})

FaultSpec == FaultInit /\ [][LogNext]_vars

\* the steps of a call that need no other thread
Proceed(t) ==
    \/ WritePiece(t) \/ ReleaseWrite(t) \/ Flush(t) \/ ReleaseFlush(t)
    \/ Eprintln(t)

\* every thread is scheduled, and a thread waiting for a mutex that is
\* released again and again gets it
LogFairSpec ==
    /\ LogSpec
    /\ \A t \in Threads :
          /\ WF_vars(Proceed(t))
          /\ SF_vars(Acquire(t))


TypeOK ==
    /\ pc \in {"idle", "ready", "done", "applied"}
    /\ ret \in {"None", "Some"}
    /\ other \in 0..MaxOther
    /\ runs \in 0..2
    /\ logger \in Loggers
    /\ faulty \in BOOLEAN
    /\ lock \in Threads \cup {NoThread}
    /\ Len(buf) <= BufCap
    /\ issued \in 0..MaxCalls
    /\ \A t \in Threads :
          thr[t].pc \in {"idle", "lock_write", "write", "unlock_write",
                         "lock_flush", "flush", "unlock_flush", "eprintln",
                         "returned", "panicked"}

\* ---- what the claims speak about ----
Doc == ctx.tree.doc

\* the node the classification was consulted for: the path when a path
\* encloses the caret, the method call otherwise
Consulted ==
    IF ctx.tree.path # None THEN [node |-> ctx.tree.path, cand |-> ctx.regular]
    ELSE [node |-> ctx.tree.mcall, cand |-> ctx.method]

Classified(shape) ==
    /\ Consulted.node # None
    /\ Consulted.cand # None
    /\ Consulted.cand[1].shape = shape

UnderCaret == Consulted.node[1]

Before(r) == SubSeq(Doc, 1, r.start)
After(r) == SubSeq(Doc, r.end + 1, Len(Doc))

Finished == pc \in {"done", "applied"}

\* the candidate the i-th added assist stands for, in BTreeSet order
Candidates == BTreeSetIter(ctx.proposed)

IsPrefix(p, s) == Len(p) <= Len(s) /\ SubSeq(s, 1, Len(p)) = p

Rendered(import) == JoinWith(import, "::")

\* C1: applying any Edit of a TraitMethod reference `receiver.method(args)`
\* yields `P::method(&receiver` followed by the original arguments and the
\* closing parenthesis: no call argument is dropped, duplicated or altered.
C1_ArgumentsPreserved ==
    (pc = "applied" /\ Classified(TraitMethod)) =>
        file = Before(UnderCaret.range)
                 \o Rendered(Candidates[chosen - other]) \o <<"::">>
                 \o UnderCaret.name_ref[1] \o <<"(", "&">> \o UnderCaret.receiver[1]
                 \o (IF UnderCaret.arg_list = <<>> THEN <<>>
                     ELSE <<", ">> \o JoinWith(UnderCaret.arg_list, ", "))
                 \o <<")">> \o After(UnderCaret.range)

\* C2: the receiver prefix of a TraitMethod replacement matches the
\* declared receiver kind: none for a consuming `self`, `&` for `&self`.
BorrowOf(self_param) == IF self_param = "self" THEN <<>> ELSE <<"&">>

C2_ReceiverKindRespected ==
    (pc = "done" /\ ret = "Some" /\ Classified(TraitMethod)
        /\ ctx.self_param \in {"self", "&self"}) =>
        \A i \in 1..Len(Added) :
            LET call == Rendered(Candidates[i]) \o <<"::">> \o UnderCaret.name_ref[1]
                          \o <<"(">> \o BorrowOf(ctx.self_param)
                          \o UnderCaret.receiver[1]
                text == Added[i].source_change[1].insert
            IN /\ IsPrefix(call, text)
               /\ Len(text) > Len(call)
               /\ text[Len(call) + 1] \in {")", ", "}

\* C3: every Edit of a non-empty result targets the same range, the
\* original-source range of the node under the caret, in add_group and in
\* builder.replace alike.
C3_SharedTargetRange ==
    (Finished /\ ret = "Some") =>
        \A i \in 1..Len(Added) :
            /\ Added[i].target = UnderCaret.range
            /\ \A k \in 1..Len(Added[i].source_change) :
                  Added[i].source_change[k].delete = UnderCaret.range
            /\ \A j \in 1..Len(Added) : Added[j].target = Added[i].target

C3_Witness ==
    /\ pc = "done" /\ ret = "Some" /\ Len(Added) >= 2
    /\ Classified(QualifierStart)
    /\ UnderCaret.range.start > 0

\* C4: for a TraitAssocItem reference `Type::item` every candidate P yields
\* `<Type as P>::item` over the span of the whole `Type::item` path, Type and
\* item copied verbatim from the source; never a plain `P::item`.
C4_CastForEveryCandidate ==
    (pc = "done" /\ ret = "Some" /\ Classified(TraitAssocItem)) =>
        /\ Len(Added) = Len(Candidates)
        /\ \A i \in 1..Len(Added) :
            LET r == Added[i].target
                type == SubSeq(TextOf(Doc, r), 1, Len(TextOf(Doc, r)) - 2)
                item == SubSeq(TextOf(Doc, r), Len(TextOf(Doc, r)), Len(TextOf(Doc, r)))
            IN /\ r = UnderCaret.range
               /\ TextOf(Doc, r) = UnderCaret.qualifier[1] \o <<"::">> \o UnderCaret.segment[1]
               /\ Added[i].source_change =
                    <<Indel(r, <<"<">> \o type \o <<" as ">> \o Rendered(Candidates[i])
                                 \o <<">", "::">> \o item)>>

C4_Witness ==
    /\ pc = "done" /\ ret = "Some" /\ Classified(TraitAssocItem)
    /\ Len(Added) >= 2
    /\ Len(UnderCaret.qualifier[1]) > 1

\* C5: for a QualifierStart reference the target range is the span of the
\* leading segment only and each candidate P yields `P::<leading segment>`;
\* the remaining segments of the path are unchanged by applying the Edit.
LeadingRange == TextRange(UnderCaret.range.start, UnderCaret.range.start + 1)

IsSuffix(p, s) == Len(p) <= Len(s) /\ SubSeq(s, Len(s) - Len(p) + 1, Len(s)) = p

C5_LeadingSegmentOnly ==
    /\ (pc = "done" /\ ret = "Some" /\ Classified(QualifierStart)) =>
          \A i \in 1..Len(Added) :
              /\ Added[i].target = LeadingRange
              /\ Added[i].source_change =
                    <<Indel(LeadingRange,
                            Rendered(Candidates[i]) \o <<"::">>
                              \o TextOf(Doc, LeadingRange))>>
    /\ (pc = "applied" /\ Classified(QualifierStart)) =>
          /\ SubSeq(file, 1, UnderCaret.range.start) = Before(UnderCaret.range)
          /\ IsSuffix(After(LeadingRange), file)

\* C6: for an UnqualifiedName reference each candidate P yields exactly the
\* rendered path P, replacing the span of the whole one-segment path.
C6_ExactlyTheRenderedPath ==
    /\ (pc = "done" /\ ret = "Some" /\ Classified(UnqualifiedName)) =>
          /\ Len(Added) = Len(Candidates)
          /\ \A i \in 1..Len(Added) :
                /\ Added[i].target = UnderCaret.range
                /\ TextOf(Doc, Added[i].target) = UnderCaret.segment[1]
                /\ Added[i].source_change =
                      <<Indel(Added[i].target, Rendered(Candidates[i]))>>
    /\ (pc = "applied" /\ Classified(UnqualifiedName)) =>
          file = Before(UnderCaret.range) \o Rendered(Candidates[chosen - other])
                   \o After(UnderCaret.range)

C6_Witness ==
    /\ pc = "applied" /\ Classified(UnqualifiedName)
    /\ Len(Candidates[chosen - other]) > 1
    /\ After(UnderCaret.range) = <<"::", "Z">>

\* C7: one Edit per candidate path of the set, none skipped or duplicated,
\* under one group label, in ascending order of the paths; a second call
\* with the same tree, offset and candidates yields the same sequence.
PathOfLabel(label) == SubSeq(label, 3, Len(label) - 1)

C7_OnePerCandidateInOrder ==
    (pc = "done" /\ ret = "Some") =>
        /\ Len(Added) = Cardinality(ctx.proposed)
        /\ \A i \in 1..Len(Added) :
              /\ Added[i].group = Added[1].group
              /\ \E import \in ctx.proposed :
                    Rendered(import) = PathOfLabel(Added[i].label)
        /\ \A i, j \in 1..Len(Added) :
              i < j =>
                \E a, b \in ctx.proposed :
                    /\ Rendered(a) = PathOfLabel(Added[i].label)
                    /\ Rendered(b) = PathOfLabel(Added[j].label)
                    /\ ModPathLess(a, b)
        /\ runs = 2 => Added = prev

C7_Witness ==
    /\ pc = "done" /\ ret = "Some" /\ runs = 2
    /\ Len(Added) >= 2
    /\ Classified(TraitMethod)

\* C8: with no classification for the located node, or an empty candidate
\* set, qualify_path returns None and leaves the accumulator as it was.
NoClassification ==
    \/ ctx.tree.path # None /\ ctx.regular = None
    \/ ctx.tree.path = None /\ ctx.tree.mcall # None /\ ctx.method = None

C8_SilentDecline ==
    (Finished /\ (NoClassification \/ ctx.proposed = {})) =>
        /\ ret = "None"
        /\ acc = OtherAssists(other)

C8_Witness ==
    /\ pc = "done" /\ other > 0
    /\ ~NoClassification /\ Consulted.node # None
    /\ ctx.proposed = {}

\* C9: a located node lacking a child its shape requires makes qualify_path
\* return None with no Edit added, also when candidates exist.
MalformedNode ==
    \/ Classified(QualifierStart) /\ UnderCaret.segment = None
    \/ Classified(TraitAssocItem)
          /\ (UnderCaret.qualifier = None \/ UnderCaret.segment = None)
    \/ Classified(TraitMethod)
          /\ (UnderCaret.receiver = None \/ UnderCaret.name_ref = None)

C9_MalformedDeclines ==
    (Finished /\ MalformedNode /\ ctx.proposed # {}) =>
        /\ ret = "None"
        /\ acc = OtherAssists(other)

C9_Witness ==
    /\ pc = "done" /\ other > 0
    /\ Classified(TraitMethod)
    /\ UnderCaret.receiver = None /\ UnderCaret.name_ref # None
    /\ Cardinality(ctx.proposed) >= 2

\* C10: applying one Edit of a group replaces the text of its target range
\* by its own replacement text, leaves the text outside the range as it was,
\* and writes the replacement text of no sibling Edit.
RECURSIVE Occurs(_, _)
Occurs(sub, s) ==
    IF Len(s) < Len(sub) THEN FALSE
    ELSE IsPrefix(sub, s) \/ Occurs(sub, Tail(s))

C10_SingleRangeSubstitution ==
    pc = "applied" =>
        LET edit == acc[chosen]
            r == edit.target
            tail == Len(Doc) - r.end
            middle == SubSeq(file, r.start + 1, Len(file) - tail)
        IN /\ Len(file) >= r.start + tail
           /\ SubSeq(file, 1, r.start) = Before(r)
           /\ SubSeq(file, Len(file) - tail + 1, Len(file)) = After(r)
           /\ Len(edit.source_change) = 1
           /\ middle = edit.source_change[1].insert
           /\ Occurs(PathOfLabel(edit.label), middle)
           /\ \A j \in other + 1 .. Len(acc) :
                 j # chosen =>
                    /\ acc[j].source_change[1].insert # middle
                    /\ PathOfLabel(acc[j].label) # PathOfLabel(edit.label)

C10_Witness ==
    /\ pc = "applied" /\ Len(Added) >= 2 /\ chosen = other + 2
    /\ Before(acc[chosen].target) # <<>>
    /\ After(acc[chosen].target) # <<>>

\* C13: the path branch is tried first and the method-call branch only when
\* no path encloses the caret: with a path under the caret only its
\* classification is consulted, and when that yields nothing the result is
\* empty, with no fall-through to an enclosing method call; with neither
\* node under the caret the result is empty.
C13_PathBranchFirst ==
    Finished =>
        /\ (ctx.tree.path # None /\ ctx.regular = None) =>
              (ret = "None" /\ acc = OtherAssists(other))
        /\ (ctx.tree.path # None /\ ret = "Some") =>
              /\ ctx.regular # None
              /\ \A i \in 1..Len(Added) :
                    /\ Added[i].target = ctx.tree.path[1].range
                    /\ Added[i].group = GroupLabel(ctx.regular[1].name)
        /\ (ctx.tree.path = None /\ ret = "Some") =>
              /\ ctx.tree.mcall # None /\ ctx.method # None
              /\ \A i \in 1..Len(Added) :
                    Added[i].target = ctx.tree.mcall[1].range
        /\ (ctx.tree.path = None /\ ctx.tree.mcall = None) =>
              (ret = "None" /\ acc = OtherAssists(other))

C13_Witness ==
    /\ pc = "done" /\ ret = "None"
    /\ ctx.tree.path # None /\ ctx.regular = None
    /\ ctx.tree.mcall # None /\ ctx.method # None
    /\ ctx.tree.mcall[1].receiver # None /\ ctx.tree.mcall[1].name_ref # None
    /\ ctx.proposed # {}

\* ---- what the logger claims speak about ----
InCall(t) == thr[t].pc \notin {"idle", "returned", "panicked"}

Returned(t, op) == thr[t].pc = "returned" /\ thr[t].op = op

Passed(t) == thr[t].op = "log" /\ matches(logger.filter, thr[t].record)

\* what has been appended to the buffered sink, oldest first
Sink == disk \o buf

IsRecordLine(line) ==
    \E n \in 1..issued : \E record \in Records(n) :
        /\ matches(logger.filter, record)
        /\ line = LinePieces(record)

\* the part of its line the holder of the mutex has appended so far
LineInProgress ==
    IF lock # NoThread /\ thr[lock].pc = "write"
    THEN SubSeq(LinePieces(thr[lock].record), 1, thr[lock].k - 1)
    ELSE <<>>

RECURSIVE WholeLinesThen(_, _)
WholeLinesThen(s, rest) ==
    IF Len(s) < LineLen THEN s = rest
    ELSE /\ IsRecordLine(SubSeq(s, 1, LineLen))
         /\ WholeLinesThen(SubSeq(s, LineLen + 1, Len(s)), rest)

\* C11: whatever the sink does, no call of Logger::log or Logger::flush
\* panics: a failed write is dropped and a failed flush is ignored.
C11_NeverPanics ==
    \A t \in Threads : thr[t].pc # "panicked"

====
